---- MODULE Spec2Model ----
(***************************************************************************)
(* Model of src/src/App.tsx, the wishlist manager: the React state of the  *)
(* App component, its event handlers, the startup exchange-rate fetch and  *)
(* the price functions convertPrice and calculateGroupTotal.               *)
(*                                                                         *)
(* Numbers.  A price, a rate-converted amount or a parsed text is a record  *)
(* [nan, v]: v counts thousandths, so 0.125 is Num(125), and the record    *)
(* stands for the double nearest to v / 1000.  Texts (form fields, the     *)
(* result of toFixed and toString) are sequences of one-character strings. *)
(* The price texts of the model have at most three decimals and are        *)
(* either not on a rounding tie or exactly representable in binary         *)
(* (multiples of 1/8), and the rates are powers of two: on these the exact *)
(* arithmetic on v and IEEE doubles give the same toFixed(2) digits and    *)
(* the same sign of a difference.  A sum of doubles is not the nearest     *)
(* double of the decimal sum (0.14 + 0.14 + 0.14 is 0.42000000000000004),  *)
(* so the additions of calculateGroupTotal are made on the doubles in      *)
(* full, records [nan, neg, limbs], rounding to nearest, ties to even.     *)
(* Magnitudes stay below 2^15 and zero has one sign.                       *)
(***************************************************************************)
EXTENDS Integers, Sequences, FiniteSets, TLC

(* ------------------------------ bounds -------------------------------- *)

\* ids handed out by crypto.randomUUID() (people and items together)
MaxIds == 4
\* people on the list at once
MaxPeople == 2
\* how many of PriceTextChoices the user types
NumPriceTexts == 3
\* how many of SUPPORTED_CURRENCIES the user selects in the model
NumCurrencies == 2
\* how many of RateTableChoices the rate service may answer with
NumRateTables == 2
\* sort clicks counted per person (the sort button stays after that)
MaxSorts == 3
\* items on the page when only sorting is explored
MaxSortItems == 3

(* ------------------------------ numbers ------------------------------- *)

Num(n) == [nan |-> FALSE, v |-> n]

NaN == [nan |-> TRUE, v |-> 0]

Abs(n) == IF n < 0 THEN -n ELSE n

\* the significand of a double has 53 bits
Precision == 53

\* A double in full is a record [nan, neg, limbs]: its magnitude is
\* limbs[1] + limbs[2] / Limb + ... + limbs[NumLimbs] / Limb^(NumLimbs - 1)
\* with every limb in 0..Limb-1, so 0.5 is <<0, 16384, 0, 0, 0, 0>>.
LimbBits == 15

Limb == 2^LimbBits

NumLimbs == 6

ZeroLimbs == [i \in 1..NumLimbs |-> 0]

\* the first n limbs of r / den after the point, then the remainder left
RECURSIVE FractionLimbs(_, _, _)
FractionLimbs(r, den, n) ==
    IF n = 0 THEN <<r>>
    ELSE <<(r * Limb) \div den>> \o FractionLimbs((r * Limb) % den, den, n - 1)

\* a + b and a - b (a >= b) of magnitudes, exactly, from the last limb up
RECURSIVE AddLimbs(_, _, _, _)
AddLimbs(a, b, i, carry) ==
    IF i = 0 THEN <<>>
    ELSE IF a[i] + b[i] + carry >= Limb
         THEN Append(AddLimbs(a, b, i - 1, 1), a[i] + b[i] + carry - Limb)
         ELSE Append(AddLimbs(a, b, i - 1, 0), a[i] + b[i] + carry)

RECURSIVE SubLimbs(_, _, _, _)
SubLimbs(a, b, i, borrow) ==
    IF i = 0 THEN <<>>
    ELSE IF a[i] - b[i] - borrow < 0
         THEN Append(SubLimbs(a, b, i - 1, 1), a[i] - b[i] - borrow + Limb)
         ELSE Append(SubLimbs(a, b, i - 1, 0), a[i] - b[i] - borrow)

LessLimbs(a, b) ==
    \E i \in 1..NumLimbs : a[i] < b[i] /\ \A j \in 1..(i - 1) : a[j] = b[j]

\* the number of bits of a limb x > 0
BitLength(x) == CHOOSE n \in 1..LimbBits : 2^(n - 1) <= x /\ x < 2^n

\* The magnitude m (plus something below its last limb when sticky) rounded
\* to Precision significant bits, ties to even: lead is the first limb that
\* is not zero, last the position of the last bit kept (counted from the
\* first bit of limbs[1]), which is the bit worth unit in limb k.
RoundLimbs(m, sticky) ==
    IF m = ZeroLimbs THEN m
    ELSE LET lead == CHOOSE i \in 1..NumLimbs : m[i] # 0 /\ \A j \in 1..(i - 1) : m[j] = 0
             last == LimbBits * lead - BitLength(m[lead]) + Precision
             k == (last - 1) \div LimbBits + 1
             unit == 2^(LimbBits * k - last)
         IN IF last >= LimbBits * NumLimbs THEN m
            ELSE LET low == m[k] % unit
                     guard == IF unit > 1 THEN low >= unit \div 2
                              ELSE m[k + 1] >= Limb \div 2
                     below == IF unit > 1 THEN low % (unit \div 2) # 0
                              ELSE m[k + 1] % (Limb \div 2) # 0
                     rest == \/ sticky
                             \/ below
                             \/ \E i \in (k + 1)..NumLimbs :
                                    (unit > 1 \/ i > k + 1) /\ m[i] # 0
                     odd == (m[k] \div unit) % 2 = 1
                     kept == [i \in 1..NumLimbs |->
                                 IF i < k THEN m[i]
                                 ELSE IF i = k THEN m[k] - low ELSE 0]
                     ulp == [i \in 1..NumLimbs |-> IF i = k THEN unit ELSE 0]
                 IN IF guard /\ (rest \/ odd)
                    THEN AddLimbs(kept, ulp, NumLimbs, 0)
                    ELSE kept

DoubleNaN == [nan |-> TRUE, neg |-> FALSE, limbs |-> ZeroLimbs]

Double(neg, limbs) == [nan |-> FALSE, neg |-> neg, limbs |-> limbs]

\* the double nearest to x.v / 1000: what parseFloat returns for its text
DoubleOf(x) ==
    IF x.nan THEN DoubleNaN
    ELSE LET f == FractionLimbs(Abs(x.v) % 1000, 1000, NumLimbs - 1)
         IN Double(x.v < 0,
                   RoundLimbs(<<Abs(x.v) \div 1000>> \o SubSeq(f, 1, NumLimbs - 1),
                              f[NumLimbs] # 0))

\* a + b of JavaScript on doubles: NaN absorbs, the exact sum is rounded to
\* the nearest double, x + (-x) is +0
NumAdd(a, b) ==
    IF a.nan \/ b.nan THEN DoubleNaN
    ELSE IF a.neg = b.neg
         THEN Double(a.neg, RoundLimbs(AddLimbs(a.limbs, b.limbs, NumLimbs, 0), FALSE))
    ELSE IF a.limbs = b.limbs THEN Double(FALSE, ZeroLimbs)
    ELSE IF LessLimbs(a.limbs, b.limbs)
         THEN Double(b.neg, RoundLimbs(SubLimbs(b.limbs, a.limbs, NumLimbs, 0), FALSE))
    ELSE Double(a.neg, RoundLimbs(SubLimbs(a.limbs, b.limbs, NumLimbs, 0), FALSE))

Digits == <<"0", "1", "2", "3", "4", "5", "6", "7", "8", "9">>

IsDigit(c) == \E i \in 1..Len(Digits) : Digits[i] = c

DigitVal(c) == (CHOOSE i \in 1..Len(Digits) : Digits[i] = c) - 1

\* the decimal digits of a natural number, without leading zeros ("0" for 0)
RECURSIVE NatToText(_)
NatToText(n) ==
    IF n < 10 THEN <<Digits[n + 1]>>
    ELSE NatToText(n \div 10) \o <<Digits[(n % 10) + 1]>>

\* the number of digit characters of s from position i on
RECURSIVE DigitRun(_, _)
DigitRun(s, i) ==
    IF i > Len(s) \/ ~IsDigit(s[i]) THEN 0 ELSE 1 + DigitRun(s, i + 1)

\* the value of the n digit characters of s from position i on
RECURSIVE DigitsValue(_, _, _)
DigitsValue(s, i, n) ==
    IF n = 0 THEN 0
    ELSE 10 * DigitsValue(s, i, n - 1) + DigitVal(s[i + n - 1])

\* the first three decimals of the n fraction digits at position i, as thousandths
FractionValue(s, i, n) ==
    LET d(k) == IF k <= n THEN DigitVal(s[i + k - 1]) ELSE 0
    IN 100 * d(1) + 10 * d(2) + d(3)

\* parseFloat(text): the longest prefix [+-]digits[.digits] after leading
\* blanks; NaN when there is none (the empty text, "NaN").
ParseFloat(text) ==
    LET blanks == CHOOSE k \in 0..Len(text) :
                    /\ \A j \in 1..k : text[j] = " "
                    /\ (k = Len(text) \/ text[k + 1] # " ")
        s == SubSeq(text, blanks + 1, Len(text))
        signed == Len(s) > 0 /\ s[1] \in {"-", "+"}
        neg == signed /\ s[1] = "-"
        start == IF signed THEN 2 ELSE 1
        intLen == DigitRun(s, start)
        dot == start + intLen
        hasDot == dot <= Len(s) /\ s[dot] = "."
        fracLen == IF hasDot THEN DigitRun(s, dot + 1) ELSE 0
        mag == 1000 * DigitsValue(s, start, intLen)
                 + FractionValue(s, dot + 1, fracLen)
    IN IF intLen = 0 /\ fracLen = 0 THEN NaN
       ELSE Num(IF neg THEN -mag ELSE mag)

\* Number.prototype.toString(): "NaN", or the shortest decimal
NumToString(x) ==
    IF x.nan THEN <<"N", "a", "N">>
    ELSE LET m == Abs(x.v)
             f == m % 1000
             d1 == f \div 100
             d2 == (f \div 10) % 10
             d3 == f % 10
             frac == IF f = 0 THEN <<>>
                     ELSE IF d3 # 0 THEN <<".", Digits[d1 + 1], Digits[d2 + 1], Digits[d3 + 1]>>
                     ELSE IF d2 # 0 THEN <<".", Digits[d1 + 1], Digits[d2 + 1]>>
                     ELSE <<".", Digits[d1 + 1]>>
         IN (IF x.v < 0 THEN <<"-">> ELSE <<>>) \o NatToText(m \div 1000) \o frac

\* (num / den).toFixed(2) for den > 0: the nearest count of hundredths, the
\* larger one on a tie, the sign in front, always two decimals
ToFixed2(isNaN, num, den) ==
    IF isNaN THEN <<"N", "a", "N">>
    ELSE LET m == Abs(num)
             cents == (200 * m + den) \div (2 * den)
             c == cents % 100
         IN (IF num < 0 THEN <<"-">> ELSE <<>>)
              \o NatToText(cents \div 100)
              \o <<".", Digits[(c \div 10) + 1], Digits[(c % 10) + 1]>>

(* ------------------------- currencies and rates ----------------------- *)

SUPPORTED_CURRENCIES == <<"USD", "EUR", "SEK", "GBP", "JPY">>

Currencies == {SUPPORTED_CURRENCIES[i] : i \in 1..Len(SUPPORTED_CURRENCIES)}

Min(a, b) == IF a < b THEN a ELSE b

\* the currencies the selects are set to in the model: USD (the add form's
\* default), SEK (the initial display currency), then the others
SelectOrder == <<"USD", "SEK", "EUR", "GBP", "JPY">>

CurrencyChoices == {SelectOrder[i] : i \in 1..Min(NumCurrencies, Len(SelectOrder))}

\* A rate table maps a currency to its rate, 0 standing for "no entry".
\* rates is [defined, rate]: defined is FALSE when setRates received
\* undefined (a parsed answer without a "rates" member).
NoRate == [c \in Currencies |-> 0]

EmptyRates == [defined |-> TRUE, rate |-> NoRate]

UndefinedRates == [defined |-> FALSE, rate |-> NoRate]

\* answers of the rate service (base USD, so USD is 1); the second one
\* lacks three of the supported currencies
RateTableChoices ==
    << [c \in Currencies |->
          CASE c = "USD" -> 1 [] c = "EUR" -> 2 [] c = "SEK" -> 8
            [] c = "GBP" -> 4 [] OTHER -> 128],
       [c \in Currencies |->
          CASE c = "USD" -> 1 [] c = "SEK" -> 8 [] OTHER -> 0],
       [c \in Currencies |->
          CASE c = "USD" -> 1 [] c = "EUR" -> 1 [] c = "SEK" -> 16
            [] c = "GBP" -> 1 [] OTHER -> 64] >>

RateTables ==
    {[defined |-> TRUE, rate |-> RateTableChoices[i]] :
        i \in 1..Min(NumRateTables, Len(RateTableChoices))}

\* what the user types into a price field: a valid floating-point text or
\* the empty text (the value of an <input type="number">)
PriceTextChoices ==
    << <<"2">>, <<"1", ".", "1", "2", "5">>, <<>>, <<"-", "3">>, <<"1", "0">> >>

PriceTexts == {PriceTextChoices[i] : i \in 1..Min(NumPriceTexts, Len(PriceTextChoices))}

(* ------------------------------ convertPrice -------------------------- *)

\* the outcome of a call: a returned value, or an uncaught exception
Returned(x) == [throws |-> FALSE, value |-> x]

Thrown == [throws |-> TRUE, value |-> <<>>]

\* fx(price).from(from).to(to) of money.js with fx.rates = r and
\* fx.base = "USD": price * rate(to) / rate(from), as a fraction
FxNum(r, price, from, to) == price.v * r.rate[to]

FxDen(r, price, from, to) == 1000 * r.rate[from]

\* a variant whose fallback returns the amount as it is, String(price)
convertPriceUnrounded(r, price, from, to) ==
    IF ~r.defined THEN Thrown
    ELSE IF r.rate[from] = 0 \/ r.rate[to] = 0 THEN Returned(NumToString(price))
    ELSE Returned(ToFixed2(price.nan, FxNum(r, price, from, to), FxDen(r, price, from, to)))

\* convertPrice(price, fromCurrency, toCurrency) with the rates of the closure.
\* rates[fromCurrency] on an undefined rates is a TypeError, outside the try.
\* The catch branch is not reached: fx throws only for a missing rate.
convertPrice(r, price, from, to) ==
    IF ~r.defined THEN Thrown
    ELSE IF r.rate[from] = 0 \/ r.rate[to] = 0
         THEN Returned(ToFixed2(price.nan, price.v, 1000))
    ELSE Returned(ToFixed2(price.nan, FxNum(r, price, from, to), FxDen(r, price, from, to)))

\* parseFloat(convertPrice(item.price, item.currency, displayCurrency))
convertedPrice(r, dc, item) ==
    LET c == convertPrice(r, item.price, item.currency, dc)
    IN IF c.throws THEN Thrown ELSE Returned(ParseFloat(c.value))

(* ------------------------------- items -------------------------------- *)

\* the null of parentId, showNewItemForm and editingItemId; ids are 1, 2, ...
Null == 0

\* a WishlistItem.  name and link are carried but never typed in the model.
\* (An item saved by saveEditedItem also keeps the form's tempCurrency
\* member, which nothing reads; the model leaves it out.)
Item(id, name, price, currency, link, parentId, isRequired) ==
    [id |-> id, name |-> name, price |-> price, currency |-> currency,
     link |-> link, parentId |-> parentId, isRequired |-> isRequired]

Range(s) == {s[i] : i \in 1..Len(s)}

ItemIds(items) == {items[i].id : i \in 1..Len(items)}

\* Array.prototype.filter is SelectSeq of Sequences

(* -------------------------- calculateGroupTotal ------------------------ *)

\* total += parseFloat(convertPrice(child...)) over children, in list order
RECURSIVE SumConverted(_, _, _, _)
SumConverted(r, dc, total, children) ==
    IF children = <<>> THEN total
    ELSE SumConverted(r, dc,
            NumAdd(total, DoubleOf(convertedPrice(r, dc, Head(children)).value)),
            Tail(children))

\* calculateGroupTotal(items, parentId) with rates and displayCurrency of
\* the closure.  Every convertPrice call throws exactly when rates is
\* undefined, and the parent's call comes first.
calculateGroupTotal(r, dc, items, parentId) ==
    LET found == SelectSeq(items, LAMBDA it : it.id = parentId)
        children == SelectSeq(items, LAMBDA it : it.parentId = parentId /\ it.isRequired)
    IN IF found = <<>> THEN Returned(DoubleOf(Num(0)))
       ELSE IF ~r.defined THEN Thrown
       ELSE Returned(SumConverted(r, dc,
                        DoubleOf(convertedPrice(r, dc, found[1]).value), children))

(* ------------------------------- sorting ------------------------------- *)

\* the sign of the comparator's result for priceA and priceB, the converted
\* prices of a and b; a NaN result counts as +0 (SortCompare of ECMAScript)
Compare(dir, priceA, priceB) ==
    LET d == IF dir = "asc" THEN priceA.v - priceB.v ELSE priceB.v - priceA.v
    IN IF priceA.nan \/ priceB.nan THEN 0
       ELSE IF d < 0 THEN -1 ELSE IF d > 0 THEN 1 ELSE 0

\* the items with the converted prices the comparator computes for them
Keyed(r, dc, items) ==
    [i \in 1..Len(items) |->
        [key |-> convertedPrice(r, dc, items[i]).value, item |-> items[i]]]

\* a consistent comparator in the sense of ECMAScript 23.1.3.30.2 (its
\* "equal" and "less" are transitive); a NaN price next to two different
\* prices breaks it
Consistent(dir, keyed) ==
    \A a, b, c \in Range(keyed) :
        /\ (Compare(dir, a.key, b.key) = 0 /\ Compare(dir, b.key, c.key) = 0)
              => Compare(dir, a.key, c.key) = 0
        /\ (Compare(dir, a.key, b.key) < 0 /\ Compare(dir, b.key, c.key) < 0)
              => Compare(dir, a.key, c.key) < 0

\* insert x behind the elements that do not compare greater (stable)
RECURSIVE Insert(_, _, _)
Insert(dir, x, sorted) ==
    IF sorted = <<>> THEN <<x>>
    ELSE IF Compare(dir, Head(sorted).key, x.key) > 0 THEN <<x>> \o sorted
    ELSE <<Head(sorted)>> \o Insert(dir, x, Tail(sorted))

RECURSIVE StableSort(_, _, _)
StableSort(dir, keyed, n) ==
    IF n = 0 THEN <<>>
    ELSE Insert(dir, keyed[n], StableSort(dir, keyed, n - 1))

Orderings(items) ==
    {[i \in 1..Len(items) |-> items[f[i]]] :
        f \in {g \in [1..Len(items) -> 1..Len(items)] :
                 \A i, j \in 1..Len(items) : i # j => g[i] # g[j]}}

\* the arrays [...items].sort(comparator) may produce: the stable sort
\* (ECMAScript 2019) for a consistent comparator, an implementation-defined
\* order of the same elements otherwise; the comparator is not called on a
\* list of fewer than two items
SortOutcomes(r, dc, dir, items) ==
    IF Len(items) < 2 THEN {items}
    ELSE LET keyed == Keyed(r, dc, items)
             sorted == StableSort(dir, keyed, Len(keyed))
         IN IF Consistent(dir, keyed)
            THEN {[i \in 1..Len(sorted) |-> sorted[i].item]}
            ELSE Orderings(items)

(* ------------------------------- state --------------------------------- *)

VARIABLES
    people,            \* useState<Person[]>([])
    newPersonName,     \* text of the add-person field
    showNewItemForm,   \* id of the person whose add form is open, or Null
    editingItemId,     \* id of the item under edit, or Null
    editingItem,       \* the edit form's copy of that item, or NullEditingItem
    newItem,           \* the add form's fields
    displayCurrency,
    rates,             \* the rate table, see EmptyRates and UndefinedRates
    sortDirection,     \* "asc" or "desc", one for the whole page
    fetchState,        \* the startup fetch: "pending", "resolved" or "failed"
    nextId,            \* number of ids crypto.randomUUID() has handed out
    aborted,           \* how the last step ended: "none", "handler" (the
                       \* handler threw, the page stays) or "render" (the
                       \* render threw: React unmounts the page)
    lastOp,            \* history: the handler that ran last and its arguments
    before,            \* history: people when that handler started
    sortCalls,         \* history: sortItemsByPrice calls so far, by person id
    call,              \* function specifications: the arguments of the call
    result             \* function specifications: <<its outcome>>, or NoResult

vars == <<people, newPersonName, showNewItemForm, editingItemId, editingItem,
          newItem, displayCurrency, rates, sortDirection, fetchState, nextId,
          aborted, lastOp, before, sortCalls, call, result>>

EmptyText == <<>>

InitialNewItem ==
    [name |-> EmptyText, price |-> EmptyText, currency |-> "USD",
     link |-> EmptyText, parentId |-> Null, isRequired |-> FALSE]

\* editingItem = null
NullEditingItem ==
    [id |-> Null, name |-> EmptyText, price |-> EmptyText, currency |-> "USD",
     link |-> EmptyText, parentId |-> Null, isRequired |-> FALSE,
     tempCurrency |-> "USD"]

\* what is typed into the add-person field: a name, or a blank
PersonNameChoices == {<<"A", "n", "n">>, <<" ">>}

\* String.prototype.trim
RECURSIVE TrimLeft(_)
TrimLeft(t) == IF t # <<>> /\ Head(t) = " " THEN TrimLeft(Tail(t)) ELSE t

RECURSIVE TrimRight(_)
TrimRight(t) ==
    IF t # <<>> /\ t[Len(t)] = " " THEN TrimRight(SubSeq(t, 1, Len(t) - 1)) ELSE t

Trim(t) == TrimRight(TrimLeft(t))

PersonIds(p) == {p[i].id : i \in 1..Len(p)}

\* the items of the person with this id (<<>> when there is none)
ItemsOf(p, personId) ==
    LET found == SelectSeq(p, LAMBDA person : person.id = personId)
    IN IF found = <<>> THEN <<>> ELSE found[1].items

\* people.map(person => person.id === personId ? {...person, items} : person)
WithItems(p, personId, items) ==
    [i \in 1..Len(p) |->
        IF p[i].id = personId THEN [p[i] EXCEPT !.items = items] ELSE p[i]]

NoSortCalls == [id \in 1..MaxIds |-> 0]

NoCall == [fn |-> "none"]

\* no outcome yet; an outcome o is stored as <<o>>
NoResult == <<>>

Op(name, personId, a, b) == [op |-> name, personId |-> personId, a |-> a, b |-> b]

(* ------------------------------- render -------------------------------- *)

\* whether rendering one item calls convertPrice or calculateGroupTotal
\* (the item under edit shows its form instead)
ItemRenderConverts(items, item, eid, eit, dc) ==
    /\ ~(eid = item.id /\ eit # NullEditingItem)
    /\ \/ item.currency # dc
       \/ /\ item.parentId = Null
          /\ \E i \in 1..Len(items) :
                items[i].parentId = item.id /\ items[i].isRequired

\* the render throws: some convertPrice call meets the undefined rates
RenderThrows(p, eid, eit, dc, r) ==
    /\ ~r.defined
    /\ \E i \in 1..Len(p) : \E j \in 1..Len(p[i].items) :
          ItemRenderConverts(p[i].items, p[i].items[j], eid, eit, dc)

\* every state change is followed by a render of the new state
Rendered ==
    aborted' = IF RenderThrows(people', editingItemId', editingItem',
                               displayCurrency', rates')
               THEN "render" ELSE "none"

Alive == aborted # "render"

Init ==
    /\ people = <<>>
    /\ newPersonName = EmptyText
    /\ showNewItemForm = Null
    /\ editingItemId = Null
    /\ editingItem = NullEditingItem
    /\ newItem = InitialNewItem
    /\ displayCurrency = "SEK"
    /\ rates = EmptyRates
    /\ sortDirection = "asc"
    /\ fetchState = "pending"
    /\ nextId = 0
    /\ aborted = "none"
    /\ lastOp = Op("init", Null, 0, 0)
    /\ before = <<>>
    /\ sortCalls = NoSortCalls
    /\ call = NoCall
    /\ result = NoResult

(* ------------------------- handlers, as functions ---------------------- *)

\* addPerson: [...people, {id, name: newPersonName, items: []}]
addPerson(p, id, name) == Append(p, [id |-> id, name |-> name, items |-> <<>>])

\* removePerson: people.filter(person => person.id !== personId)
removePerson(p, personId) == SelectSeq(p, LAMBDA person : person.id # personId)

\* a variant whose map forgets the test on person.id: every list gets the item
addItemEverywhere(p, personId, id, ni) ==
    [q \in 1..Len(p) |->
        [p[q] EXCEPT !.items =
            Append(@, Item(id, ni.name, ParseFloat(ni.price), ni.currency,
                           ni.link, ni.parentId, ni.isRequired))]]

\* addItem: the form's fields become an item at the end of the person's list
addItem(p, personId, id, ni) ==
    WithItems(p, personId,
        Append(ItemsOf(p, personId),
               Item(id, ni.name, ParseFloat(ni.price), ni.currency, ni.link,
                    ni.parentId, ni.isRequired)))

\* a variant with the cascade forgotten: only the item itself is filtered out
removeItemNoCascade(p, personId, itemId) ==
    WithItems(p, personId,
        SelectSeq(ItemsOf(p, personId), LAMBDA it : ~(it.id = itemId)))

\* removeItem: the item and the items that name it as parent are filtered out
removeItem(p, personId, itemId) ==
    WithItems(p, personId,
        SelectSeq(ItemsOf(p, personId),
                  LAMBDA it : ~(it.id = itemId) /\ ~(it.parentId = itemId)))

\* a variant that forgets tempCurrency, which then reads as undefined
EditingCopyNoTempCurrency(item) ==
    [id |-> item.id, name |-> item.name, price |-> NumToString(item.price),
     currency |-> item.currency, link |-> item.link, parentId |-> item.parentId,
     isRequired |-> item.isRequired, tempCurrency |-> "undefined"]

\* startEditingItem: {...item, price: item.price.toString(), tempCurrency}
EditingCopy(item) ==
    [id |-> item.id, name |-> item.name, price |-> NumToString(item.price),
     currency |-> item.currency, link |-> item.link, parentId |-> item.parentId,
     isRequired |-> item.isRequired, tempCurrency |-> item.currency]

\* {...editingItem, price: parseFloat(editingItem.price), currency: tempCurrency}
EditedItem(eit) ==
    Item(eit.id, eit.name, ParseFloat(eit.price), eit.tempCurrency, eit.link,
         eit.parentId, eit.isRequired)

\* a variant that puts the edited item back when the list no longer has it
saveEditedItemUpsert(p, personId, eid, eit) ==
    LET items == ItemsOf(p, personId)
    IN WithItems(p, personId,
          IF eid \in ItemIds(items)
          THEN [i \in 1..Len(items) |->
                   IF items[i].id = eid THEN EditedItem(eit) ELSE items[i]]
          ELSE Append(items, EditedItem(eit)))

\* saveEditedItem past its guard: the item with id editingItemId is replaced
saveEditedItem(p, personId, eid, eit) ==
    LET items == ItemsOf(p, personId)
    IN WithItems(p, personId,
          [i \in 1..Len(items) |->
              IF items[i].id = eid THEN EditedItem(eit) ELSE items[i]])

\* items.splice(index, 1): the list without the element at index (from 0)
SpliceOut(items, index) ==
    SubSeq(items, 1, index) \o SubSeq(items, index + 2, Len(items))

\* items.splice(index, 0, x): x put in at index (from 0), at the end when
\* index is past it
SpliceIn(items, index, x) ==
    LET at == Min(index, Len(items))
    IN SubSeq(items, 1, at) \o <<x>> \o SubSeq(items, at + 1, Len(items))

\* a variant that exchanges the two positions instead of moving the item
handleDragEndSwap(p, personId, source, destination) ==
    LET items == ItemsOf(p, personId)
    IN WithItems(p, personId,
          [i \in 1..Len(items) |->
              IF i = source + 1 THEN items[destination + 1]
              ELSE IF i = destination + 1 THEN items[source + 1]
              ELSE items[i]])

\* handleDragEnd with a destination
handleDragEnd(p, personId, source, destination) ==
    LET items == ItemsOf(p, personId)
    IN WithItems(p, personId,
          SpliceIn(SpliceOut(items, source), destination, items[source + 1]))

\* the lists sortItemsByPrice may store for the person
sortItemsByPrice(p, personId, r, dc, dir) ==
    {WithItems(p, personId, sorted) :
        sorted \in SortOutcomes(r, dc, dir, ItemsOf(p, personId))}

\* the comparator is called once the list has two items
SortThrows(p, personId, r) == ~r.defined /\ Len(ItemsOf(p, personId)) >= 2

Flip(dir) == IF dir = "asc" THEN "desc" ELSE "asc"

(* ------------------------------- actions ------------------------------- *)

\* .then(data => setRates(data.rates)): a table, or undefined when the
\* parsed answer has no "rates" member
FetchResolves ==
    /\ Alive /\ fetchState = "pending"
    /\ \E t \in RateTables \cup {UndefinedRates} : rates' = t
    /\ fetchState' = "resolved"
    /\ lastOp' = Op("fetchResolves", Null, 0, 0) /\ before' = people
    /\ UNCHANGED <<people, newPersonName, showNewItemForm, editingItemId,
                   editingItem, newItem, displayCurrency, sortDirection,
                   nextId, sortCalls, call, result>>
    /\ Rendered

\* a variant of the catch handler that clears the table: setRates(undefined)
FetchFailsWritesRates ==
    /\ Alive /\ fetchState = "pending"
    /\ fetchState' = "failed"
    /\ rates' = UndefinedRates
    /\ lastOp' = Op("fetchFails", Null, 0, 0) /\ before' = people
    /\ UNCHANGED <<people, newPersonName, showNewItemForm, editingItemId,
                   editingItem, newItem, displayCurrency, sortDirection,
                   nextId, sortCalls, call, result>>
    /\ Rendered

\* .catch(...): the request is rejected, the body does not parse, or the
\* parsed answer is null; the error is logged and no state changes
FetchFails ==
    /\ Alive /\ fetchState = "pending"
    /\ fetchState' = "failed"
    /\ lastOp' = Op("fetchFails", Null, 0, 0) /\ before' = people
    /\ UNCHANGED <<people, newPersonName, showNewItemForm, editingItemId,
                   editingItem, newItem, displayCurrency, rates,
                   sortDirection, nextId, aborted, sortCalls, call, result>>

SetNewPersonName ==
    /\ Alive
    /\ \E t \in PersonNameChoices : t # newPersonName /\ newPersonName' = t
    /\ lastOp' = Op("setNewPersonName", Null, 0, 0) /\ before' = people
    /\ UNCHANGED <<people, showNewItemForm, editingItemId, editingItem,
                   newItem, displayCurrency, rates, sortDirection,
                   fetchState, nextId, sortCalls, call, result>>
    /\ Rendered

AddPerson ==
    /\ Alive
    /\ Trim(newPersonName) # EmptyText
    /\ Len(people) < MaxPeople /\ nextId < MaxIds
    /\ people' = addPerson(people, nextId + 1, newPersonName)
    /\ nextId' = nextId + 1
    /\ newPersonName' = EmptyText
    /\ lastOp' = Op("addPerson", nextId + 1, 0, 0) /\ before' = people
    /\ UNCHANGED <<showNewItemForm, editingItemId, editingItem, newItem,
                   displayCurrency, rates, sortDirection, fetchState,
                   sortCalls, call, result>>
    /\ Rendered

RemovePerson ==
    /\ Alive
    /\ \E personId \in PersonIds(people) :
          /\ people' = removePerson(people, personId)
          /\ lastOp' = Op("removePerson", personId, 0, 0)
    /\ before' = people
    /\ UNCHANGED <<newPersonName, showNewItemForm, editingItemId,
                   editingItem, newItem, displayCurrency, rates,
                   sortDirection, fetchState, nextId, sortCalls, call,
                   result>>
    /\ Rendered

\* "Add New Item" of a person whose form is not the open one
OpenNewItemForm ==
    /\ Alive
    /\ \E personId \in PersonIds(people) :
          /\ showNewItemForm # personId
          /\ showNewItemForm' = personId
          /\ lastOp' = Op("openNewItemForm", personId, 0, 0)
    /\ before' = people
    /\ UNCHANGED <<people, newPersonName, editingItemId, editingItem,
                   newItem, displayCurrency, rates, sortDirection,
                   fetchState, nextId, sortCalls, call, result>>
    /\ Rendered

\* "Cancel" of the open add form: setShowNewItemForm(null), newItem stays
CancelNewItemForm ==
    /\ Alive
    /\ showNewItemForm \in PersonIds(people)
    /\ showNewItemForm' = Null
    /\ lastOp' = Op("cancelNewItemForm", showNewItemForm, 0, 0) /\ before' = people
    /\ UNCHANGED <<people, newPersonName, editingItemId, editingItem,
                   newItem, displayCurrency, rates, sortDirection,
                   fetchState, nextId, sortCalls, call, result>>
    /\ Rendered

\* what is typed into the name and link fields of the two forms
ItemNameChoices == {<<>>, <<"T", "V">>}

LinkChoices == {<<>>, <<"h", "t", "t", "p", ":", "/", "/", "a">>}

\* The fields of the open add form: each onChange stores the new value.
NewItemFormOpen == showNewItemForm \in PersonIds(people)

SetNewItem(field) ==
    /\ lastOp' = Op(field, showNewItemForm, 0, 0) /\ before' = people
    /\ UNCHANGED <<people, newPersonName, showNewItemForm, editingItemId,
                   editingItem, displayCurrency, rates, sortDirection,
                   fetchState, nextId, sortCalls, call, result>>
    /\ Rendered

SetNewItemName ==
    /\ Alive /\ NewItemFormOpen
    /\ \E t \in ItemNameChoices :
          t # newItem.name /\ newItem' = [newItem EXCEPT !.name = t]
    /\ SetNewItem("setNewItemName")

SetNewItemLink ==
    /\ Alive /\ NewItemFormOpen
    /\ \E t \in LinkChoices :
          t # newItem.link /\ newItem' = [newItem EXCEPT !.link = t]
    /\ SetNewItem("setNewItemLink")

SetNewItemPrice ==
    /\ Alive /\ NewItemFormOpen
    /\ \E t \in PriceTexts :
          t # newItem.price /\ newItem' = [newItem EXCEPT !.price = t]
    /\ SetNewItem("setNewItemPrice")

SetNewItemCurrency ==
    /\ Alive /\ NewItemFormOpen
    /\ \E c \in CurrencyChoices :
          c # newItem.currency /\ newItem' = [newItem EXCEPT !.currency = c]
    /\ SetNewItem("setNewItemCurrency")

\* the parent select offers "No dependency" and every item of the person
SetNewItemParent ==
    /\ Alive /\ NewItemFormOpen
    /\ \E v \in {Null} \cup ItemIds(ItemsOf(people, showNewItemForm)) :
          v # newItem.parentId /\ newItem' = [newItem EXCEPT !.parentId = v]
    /\ SetNewItem("setNewItemParent")

\* the "Required with parent" checkbox is shown while newItem.parentId is set
ToggleNewItemRequired ==
    /\ Alive /\ NewItemFormOpen
    /\ newItem.parentId # Null
    /\ newItem' = [newItem EXCEPT !.isRequired = ~newItem.isRequired]
    /\ SetNewItem("toggleNewItemRequired")

\* submit of the open add form.  addItem itself tests nothing: whatever
\* text the price field holds is parsed and stored (the edit form, which
\* has no <form> around it, stores the same prices through saveEditedItem)
AddItem ==
    /\ Alive
    /\ showNewItemForm \in PersonIds(people)
    /\ nextId < MaxIds
    /\ people' = addItem(people, showNewItemForm, nextId + 1, newItem)
    /\ nextId' = nextId + 1
    /\ newItem' = InitialNewItem
    /\ showNewItemForm' = Null
    /\ lastOp' = Op("addItem", showNewItemForm, nextId + 1, 0) /\ before' = people
    /\ UNCHANGED <<newPersonName, editingItemId, editingItem,
                   displayCurrency, rates, sortDirection, fetchState,
                   sortCalls, call, result>>
    /\ Rendered

\* the edit button of an item that is not under edit
StartEditingItem ==
    /\ Alive
    /\ \E personId \in PersonIds(people) :
       \E item \in Range(ItemsOf(people, personId)) :
          /\ editingItemId # item.id
          /\ editingItemId' = item.id
          /\ editingItem' = EditingCopy(item)
          /\ lastOp' = Op("startEditingItem", personId, item.id, 0)
    /\ before' = people
    /\ UNCHANGED <<people, newPersonName, showNewItemForm, newItem,
                   displayCurrency, rates, sortDirection, fetchState, nextId,
                   sortCalls, call, result>>
    /\ Rendered

\* the person whose list shows the edit form: the item with id
\* editingItemId is in it and editingItem is set
EditFormOwners ==
    {personId \in PersonIds(people) :
        /\ editingItem # NullEditingItem
        /\ editingItemId \in ItemIds(ItemsOf(people, personId))}

CancelEditing ==
    /\ Alive
    /\ EditFormOwners # {}
    /\ editingItemId' = Null
    /\ editingItem' = NullEditingItem
    /\ lastOp' = Op("cancelEditing", Null, editingItemId, 0) /\ before' = people
    /\ UNCHANGED <<people, newPersonName, showNewItemForm, newItem,
                   displayCurrency, rates, sortDirection, fetchState, nextId,
                   sortCalls, call, result>>
    /\ Rendered

\* The fields of the edit form: each onChange stores the new value.
SetEditingItem(field) ==
    /\ lastOp' = Op(field, Null, editingItemId, 0) /\ before' = people
    /\ UNCHANGED <<people, newPersonName, showNewItemForm, editingItemId,
                   newItem, displayCurrency, rates, sortDirection,
                   fetchState, nextId, sortCalls, call, result>>
    /\ Rendered

SetEditingName ==
    /\ Alive /\ EditFormOwners # {}
    /\ \E t \in ItemNameChoices :
          t # editingItem.name /\ editingItem' = [editingItem EXCEPT !.name = t]
    /\ SetEditingItem("setEditingName")

SetEditingLink ==
    /\ Alive /\ EditFormOwners # {}
    /\ \E t \in LinkChoices :
          t # editingItem.link /\ editingItem' = [editingItem EXCEPT !.link = t]
    /\ SetEditingItem("setEditingLink")

SetEditingPrice ==
    /\ Alive /\ EditFormOwners # {}
    /\ \E t \in PriceTexts :
          t # editingItem.price /\ editingItem' = [editingItem EXCEPT !.price = t]
    /\ SetEditingItem("setEditingPrice")

SetEditingCurrency ==
    /\ Alive /\ EditFormOwners # {}
    /\ \E c \in CurrencyChoices :
          c # editingItem.tempCurrency
          /\ editingItem' = [editingItem EXCEPT !.tempCurrency = c]
    /\ SetEditingItem("setEditingCurrency")

\* a variant that offers every other item of the person, as the add form does
EditParentOptionsUnfiltered(items, itemId) ==
    {it.id : it \in {j \in Range(items) : j.id # itemId}}

\* the options of the edit form's parent select: the person's items other
\* than the edited one that have no parent
EditParentOptions(items, itemId) ==
    {it.id : it \in {j \in Range(items) : j.id # itemId /\ j.parentId = Null}}

SetEditingParent ==
    /\ Alive
    /\ \E personId \in EditFormOwners :
       \E v \in {Null} \cup EditParentOptions(ItemsOf(people, personId), editingItemId) :
          v # editingItem.parentId
          /\ editingItem' = [editingItem EXCEPT !.parentId = v]
    /\ SetEditingItem("setEditingParent")

\* the checkbox is shown while editingItem.parentId is set
ToggleEditingRequired ==
    /\ Alive /\ EditFormOwners # {}
    /\ editingItem.parentId # Null
    /\ editingItem' = [editingItem EXCEPT !.isRequired = ~editingItem.isRequired]
    /\ SetEditingItem("toggleEditingRequired")

\* the check button of the edit form
SaveEditedItem ==
    /\ Alive
    /\ \E personId \in EditFormOwners :
          /\ editingItem # NullEditingItem /\ editingItemId # Null
          /\ people' = saveEditedItem(people, personId, editingItemId, editingItem)
          /\ lastOp' = Op("saveEditedItem", personId, editingItemId, 0)
    /\ editingItemId' = Null
    /\ editingItem' = NullEditingItem
    /\ before' = people
    /\ UNCHANGED <<newPersonName, showNewItemForm, newItem, displayCurrency,
                   rates, sortDirection, fetchState, nextId, sortCalls, call,
                   result>>
    /\ Rendered

\* saveEditedItem(personId) called for a person whose list does not show the
\* edit form (the item under edit is not in it): no button of the page
\* makes this call, the handler answers it all the same
SaveEditedItemDetached ==
    /\ Alive
    /\ editingItem # NullEditingItem /\ editingItemId # Null
    /\ \E personId \in PersonIds(people) \ EditFormOwners :
          /\ people' = saveEditedItem(people, personId, editingItemId, editingItem)
          /\ lastOp' = Op("saveEditedItem", personId, editingItemId, 0)
    /\ editingItemId' = Null
    /\ editingItem' = NullEditingItem
    /\ before' = people
    /\ UNCHANGED <<newPersonName, showNewItemForm, newItem, displayCurrency,
                   rates, sortDirection, fetchState, nextId, sortCalls, call,
                   result>>
    /\ Rendered

\* the trash button of an item
RemoveItem ==
    /\ Alive
    /\ \E personId \in PersonIds(people) :
       \E itemId \in ItemIds(ItemsOf(people, personId)) :
          /\ people' = removeItem(people, personId, itemId)
          /\ lastOp' = Op("removeItem", personId, itemId, 0)
    /\ before' = people
    /\ UNCHANGED <<newPersonName, showNewItemForm, editingItemId,
                   editingItem, newItem, displayCurrency, rates,
                   sortDirection, fetchState, nextId, sortCalls, call,
                   result>>
    /\ Rendered

\* a drag of one of the person's items that ends on a position of the same
\* list (each list is its own DragDropContext)
DragEndDropped ==
    /\ Alive
    /\ \E personId \in PersonIds(people) :
       \E source, destination \in 0..(Len(ItemsOf(people, personId)) - 1) :
          /\ people' = handleDragEnd(people, personId, source, destination)
          /\ lastOp' = Op("handleDragEnd", personId, source, destination)
    /\ before' = people
    /\ UNCHANGED <<newPersonName, showNewItemForm, editingItemId,
                   editingItem, newItem, displayCurrency, rates,
                   sortDirection, fetchState, nextId, sortCalls, call,
                   result>>
    /\ Rendered

\* a drag that ends outside the list: if (!result.destination) return
DragEndCancelled ==
    /\ Alive
    /\ \E personId \in PersonIds(people) :
       \E source \in 0..(Len(ItemsOf(people, personId)) - 1) :
          lastOp' = Op("handleDragEnd", personId, source, -1)
    /\ before' = people
    /\ UNCHANGED <<people, newPersonName, showNewItemForm, editingItemId,
                   editingItem, newItem, displayCurrency, rates,
                   sortDirection, fetchState, nextId, aborted, sortCalls,
                   call, result>>

\* the sort button of a person; the comparator throws on undefined rates,
\* before setPeople and setSortDirection
SortItemsByPrice ==
    /\ Alive
    /\ \E personId \in PersonIds(people) :
          /\ sortCalls[personId] < MaxSorts
          /\ sortCalls' = [sortCalls EXCEPT ![personId] = @ + 1]
          /\ lastOp' = Op("sortItemsByPrice", personId, 0, 0)
          /\ IF SortThrows(people, personId, rates)
             THEN /\ aborted' = "handler"
                  /\ UNCHANGED <<people, sortDirection>>
             ELSE /\ people' \in sortItemsByPrice(people, personId, rates,
                                                  displayCurrency, sortDirection)
                  /\ sortDirection' = Flip(sortDirection)
                  /\ UNCHANGED <<editingItemId, editingItem, displayCurrency, rates>>
                  /\ Rendered
    /\ before' = people
    /\ UNCHANGED <<newPersonName, showNewItemForm, editingItemId,
                   editingItem, newItem, displayCurrency, rates, fetchState,
                   nextId, call, result>>

\* the display-currency select
SetDisplayCurrency ==
    /\ Alive
    /\ \E c \in CurrencyChoices : c # displayCurrency /\ displayCurrency' = c
    /\ lastOp' = Op("setDisplayCurrency", Null, 0, 0) /\ before' = people
    /\ UNCHANGED <<people, newPersonName, showNewItemForm, editingItemId,
                   editingItem, newItem, rates, sortDirection, fetchState,
                   nextId, sortCalls, call, result>>
    /\ Rendered

PeopleActions == SetNewPersonName \/ AddPerson \/ RemovePerson

AddFormActions == OpenNewItemForm \/ CancelNewItemForm \/ AddItem

ParentActions ==
    \/ SetNewItemParent \/ ToggleNewItemRequired
    \/ SetEditingParent \/ ToggleEditingRequired

EditActions == StartEditingItem \/ CancelEditing \/ SaveEditedItem

ListActions == RemoveItem \/ DragEndDropped \/ DragEndCancelled

PriceFieldActions ==
    \/ SetNewItemPrice \/ SetNewItemCurrency
    \/ SetEditingPrice \/ SetEditingCurrency

TextFieldActions ==
    \/ SetNewItemName \/ SetNewItemLink
    \/ SetEditingName \/ SetEditingLink

RateActions == FetchResolves \/ FetchFails \/ SetDisplayCurrency

Next ==
    \/ PeopleActions \/ AddFormActions \/ ParentActions \/ EditActions
    \/ ListActions \/ PriceFieldActions \/ TextFieldActions \/ RateActions
    \/ SortItemsByPrice

Spec == Init /\ [][Next]_vars

(* ------------------------ the specifications checked ------------------- *)
\* The whole page (Spec) is too large to explore even with three items, so
\* each property is checked on the handlers that bear on it.

\* Lists and dependencies: people, the add form with its parent select and
\* checkbox, removal and drag-and-drop.  No price is typed, no currency
\* selected, no rate fetched, nothing edited or sorted.
ListNext ==
    \/ PeopleActions \/ AddFormActions \/ SetNewItemParent
    \/ ToggleNewItemRequired \/ ListActions

ListSpec == Init /\ [][ListNext]_vars

\* Prices and rates: people, the add form with its price and currency, the
\* startup fetch and the display currency.
PriceNext ==
    \/ SetNewPersonName \/ AddPerson \/ AddFormActions
    \/ SetNewItemPrice \/ SetNewItemCurrency \/ RateActions

PriceSpec == Init /\ [][PriceNext]_vars

\* Dependencies: people, the add form and the edit form with their parent
\* selects and checkboxes, and removal.  No price is typed, no currency
\* selected, no rate fetched, nothing dragged or sorted.
DependencyNext ==
    \/ SetNewPersonName \/ AddPerson \/ OpenNewItemForm \/ AddItem
    \/ SetNewItemParent \/ ToggleNewItemRequired
    \/ StartEditingItem \/ CancelEditing \/ SaveEditedItem
    \/ SetEditingParent \/ ToggleEditingRequired
    \/ RemoveItem

DependencySpec == Init /\ [][DependencyNext]_vars

\* Currencies: people, the add form with its name, link and currency, the
\* edit form with its currency select, and the display-currency select.
CurrencyNext ==
    \/ SetNewPersonName \/ AddPerson \/ OpenNewItemForm \/ AddItem
    \/ SetNewItemName \/ SetNewItemLink \/ SetNewItemCurrency
    \/ StartEditingItem \/ CancelEditing \/ SaveEditedItem
    \/ SetEditingCurrency
    \/ SetDisplayCurrency

CurrencySpec == Init /\ [][CurrencyNext]_vars

\* The item-level handlers on a page whose people are already there (the
\* first one or the first MaxPeople, with empty lists): items are added,
\* edited (their price), removed, dragged and sorted.
ItemOpsInit ==
    /\ newPersonName = EmptyText /\ showNewItemForm = Null
    /\ editingItemId = Null /\ editingItem = NullEditingItem
    /\ newItem = InitialNewItem /\ sortDirection = "asc"
    /\ aborted = "none" /\ lastOp = Op("init", Null, 0, 0) /\ before = <<>>
    /\ sortCalls = NoSortCalls /\ call = NoCall /\ result = NoResult
    /\ rates = EmptyRates /\ fetchState = "pending" /\ displayCurrency = "SEK"
    /\ \E n \in 1..MaxPeople :
          /\ nextId = n
          /\ people = [q \in 1..n |->
                         [id |-> q, name |-> <<"A", "n", "n">>, items |-> <<>>]]

ItemOpsNext ==
    \/ OpenNewItemForm \/ AddItem
    \/ StartEditingItem \/ SetEditingPrice \/ SaveEditedItem
    \/ ListActions \/ SortItemsByPrice

ItemOpsSpec == ItemOpsInit /\ [][ItemOpsNext]_vars

(* ---------------------- function specifications ------------------------ *)

\* the prices the price texts stand for
PriceValues == {ParseFloat(t) : t \in PriceTexts}

\* the values rates can have: empty until the fetch resolves, then what it stored
RatesValues == {EmptyRates, UndefinedRates} \cup RateTables

\* the page as constructed, but for people, nextId, rates and fetchState,
\* displayCurrency, call and result
Untouched ==
    /\ newPersonName = EmptyText
    /\ showNewItemForm = Null
    /\ editingItemId = Null
    /\ editingItem = NullEditingItem
    /\ newItem = InitialNewItem
    /\ sortDirection = "asc"
    /\ aborted = "none"
    /\ lastOp = Op("init", Null, 0, 0)
    /\ before = <<>>
    /\ sortCalls = NoSortCalls

RatesDrawn ==
    \E r \in RatesValues :
        /\ rates = r
        /\ fetchState = IF r = EmptyRates THEN "pending" ELSE "resolved"

\* convertPrice on every price, pair of supported currencies and rates value
ConvertInit ==
    /\ Untouched /\ RatesDrawn
    /\ people = <<>> /\ nextId = 0 /\ displayCurrency = "SEK"
    /\ call \in {[fn |-> "convertPrice", price |-> x, from |-> f, to |-> t] :
                    x \in PriceValues, f \in Currencies, t \in Currencies}
    /\ result = NoResult

ApplyConvertPrice ==
    /\ call.fn = "convertPrice" /\ result = NoResult
    /\ result' = <<convertPrice(rates, call.price, call.from, call.to)>>
    /\ UNCHANGED <<people, newPersonName, showNewItemForm, editingItemId,
                   editingItem, newItem, displayCurrency, rates, sortDirection,
                   fetchState, nextId, aborted, lastOp, before, sortCalls, call>>

ConvertSpec == ConvertInit /\ [][ApplyConvertPrice]_vars

\* The lists calculateGroupTotal is applied to: items 1..n in this order,
\* the first one top-level, each other one top-level or naming an item of
\* the list or the removed item n + 1 as its parent.
GroupLists(n) ==
    {items \in [1..n -> [id : 1..n, name : {EmptyText}, price : PriceValues,
                         currency : CurrencyChoices, link : {EmptyText},
                         parentId : 0..(n + 1), isRequired : BOOLEAN]] :
        /\ \A i \in 1..n : items[i].id = i /\ items[i].parentId # i
        /\ items[1].parentId = Null /\ items[1].isRequired = FALSE}

GroupTotalInit ==
    /\ Untouched /\ RatesDrawn
    /\ people = <<>> /\ nextId = 0
    /\ displayCurrency \in CurrencyChoices
    /\ call \in {[fn |-> "calculateGroupTotal", items |-> l, parentId |-> i] :
                    l \in GroupLists(MaxIds - 1), i \in 1..MaxIds}
    /\ result = NoResult

ApplyCalculateGroupTotal ==
    /\ call.fn = "calculateGroupTotal" /\ result = NoResult
    /\ result' = <<calculateGroupTotal(rates, displayCurrency, call.items,
                                      call.parentId)>>
    /\ UNCHANGED <<people, newPersonName, showNewItemForm, editingItemId,
                   editingItem, newItem, displayCurrency, rates, sortDirection,
                   fetchState, nextId, aborted, lastOp, before, sortCalls, call>>

GroupTotalSpec == GroupTotalInit /\ [][ApplyCalculateGroupTotal]_vars

\* Sorting with the prices fixed: MaxPeople people hold MaxSortItems items
\* between them, added through the forms and never sorted; the only
\* handler that runs is sortItemsByPrice.
SortItemIds == (MaxPeople + 1)..(MaxPeople + MaxSortItems)

SortItems ==
    [SortItemIds ->
        [id : SortItemIds, name : {EmptyText}, price : PriceValues,
         currency : CurrencyChoices, link : {EmptyText}, parentId : {Null},
         isRequired : {FALSE}]]

SortInit ==
    /\ Untouched /\ RatesDrawn
    /\ nextId = MaxPeople + MaxSortItems
    /\ displayCurrency \in CurrencyChoices
    /\ \E it \in SortItems : \E owner \in [SortItemIds -> 1..MaxPeople] :
          /\ \A i \in SortItemIds : it[i].id = i
          /\ people = [q \in 1..MaxPeople |->
                         [id |-> q, name |-> <<"A", "n", "n">>,
                          items |-> SelectSeq([k \in 1..MaxSortItems |-> it[MaxPeople + k]],
                                              LAMBDA x : owner[x.id] = q)]]
    /\ ~RenderThrows(people, editingItemId, editingItem, displayCurrency, rates)
    /\ call = NoCall /\ result = NoResult

SortSpec == SortInit /\ [][SortItemsByPrice]_vars

\* saveEditedItem on a page that holds MaxSortItems items, each with any
\* parentId (an item of the page, or the item removed last), and an edit
\* form opened for one of the items or for the removed one, with its price,
\* currency, parent and checkbox filled in; the name and the link are typed.
RemovedItemId == MaxPeople + MaxSortItems + 1

SaveItems ==
    [SortItemIds ->
        [id : SortItemIds, name : {EmptyText}, price : {Num(2000)},
         currency : {"USD"}, link : {EmptyText},
         parentId : {Null} \cup SortItemIds \cup {RemovedItemId},
         isRequired : {FALSE}]]

SaveInit ==
    /\ newPersonName = EmptyText /\ showNewItemForm = Null
    /\ newItem = InitialNewItem /\ sortDirection = "asc"
    /\ aborted = "none" /\ lastOp = Op("init", Null, 0, 0) /\ before = <<>>
    /\ sortCalls = NoSortCalls /\ call = NoCall /\ result = NoResult
    /\ rates = EmptyRates /\ fetchState = "pending" /\ displayCurrency = "SEK"
    /\ nextId = RemovedItemId
    /\ \E it \in SaveItems : \E owner \in [SortItemIds -> 1..MaxPeople] :
          /\ \A i \in SortItemIds : it[i].id = i /\ it[i].parentId # i
          /\ people = [q \in 1..MaxPeople |->
                         [id |-> q, name |-> <<"A", "n", "n">>,
                          items |-> SelectSeq([k \in 1..MaxSortItems |-> it[MaxPeople + k]],
                                              LAMBDA x : owner[x.id] = q)]]
    /\ editingItemId \in SortItemIds \cup {RemovedItemId}
    /\ editingItem \in
          [id : {editingItemId}, name : {EmptyText}, price : PriceTexts,
           currency : {"USD"}, link : {EmptyText},
           parentId : ({Null} \cup SortItemIds \cup {RemovedItemId}) \ {editingItemId},
           isRequired : BOOLEAN, tempCurrency : CurrencyChoices]

SaveNext ==
    \/ SetEditingName \/ SetEditingLink
    \/ SaveEditedItem \/ SaveEditedItemDetached

SaveSpec == SaveInit /\ [][SaveNext]_vars

(* ------------------------------- claims -------------------------------- *)

AllItems(p) == UNION {Range(p[i].items) : i \in 1..Len(p)}

\* C1: in every reachable state, every item whose parentId is set names an
\* item that is in the same person's list.
C1_ParentInSameList ==
    \A i \in 1..Len(people) : \A it \in Range(people[i].items) :
        it.parentId # Null => it.parentId \in ItemIds(people[i].items)

\* C3: in every reachable state the parent relation is one level deep: no
\* item with a parentId is named as parent by another item.
C3_OneLevelDeep ==
    \A child \in AllItems(people) : \A it \in AllItems(people) :
        (child.parentId # Null /\ it.id = child.parentId) => it.parentId = Null

\* the people are the same, in the same order, and all but the person
\* addressed have the same items
OthersUntouched(old, new, personId) ==
    /\ Len(new) = Len(old)
    /\ \A k \in 1..Len(old) :
          /\ new[k].id = old[k].id /\ new[k].name = old[k].name
          /\ old[k].id # personId => new[k] = old[k]

\* the position of the item with this id
PositionOf(items, id) == CHOOSE k \in 1..Len(items) : items[k].id = id

\* new holds exactly the items of old whose id is in kept, in old's order
KeepsExactly(old, new, kept) ==
    /\ Len(new) = Cardinality(kept)
    /\ \A k \in 1..Len(new) :
          new[k].id \in kept /\ new[k] = old[PositionOf(old, new[k].id)]
    /\ \A j, k \in 1..Len(new) :
          j < k => PositionOf(old, new[j].id) < PositionOf(old, new[k].id)

\* C2: removeItem(personId, itemId) removes from that person's list the item
\* itemId and the items whose parentId is itemId, and nothing else: the
\* other items stay, in their order, and the other people are unchanged.
C2_RemoveItemExact ==
    lastOp.op = "removeItem" =>
        LET old == ItemsOf(before, lastOp.personId)
            new == ItemsOf(people, lastOp.personId)
            kept == {it.id : it \in {x \in Range(old) :
                                       x.id # lastOp.a /\ x.parentId # lastOp.a}}
        IN /\ OthersUntouched(before, people, lastOp.personId)
           /\ KeepsExactly(old, new, kept)

\* removeItem took a child along and left an unrelated item
C2_Witness ==
    /\ lastOp.op = "removeItem"
    /\ Len(ItemsOf(before, lastOp.personId)) = 3
    /\ Len(ItemsOf(people, lastOp.personId)) = 1
    /\ \E it \in Range(ItemsOf(before, lastOp.personId)) : it.parentId = lastOp.a

\* C7: handleDragEnd with a destination moves the item at source.index to
\* destination.index of the person's list, keeps the items and the order of
\* the others; without a destination people is unchanged.
C7_DragMoves ==
    lastOp.op = "handleDragEnd" =>
        IF lastOp.b = -1 THEN people = before
        ELSE LET old == ItemsOf(before, lastOp.personId)
                 new == ItemsOf(people, lastOp.personId)
                 moved == old[lastOp.a + 1]
             IN /\ OthersUntouched(before, people, lastOp.personId)
                /\ Len(new) = Len(old)
                /\ new[lastOp.b + 1] = moved
                /\ KeepsExactly(old, SpliceOut(new, lastOp.b),
                                ItemIds(old) \ {moved.id})

\* an item was dragged over two others
C7_Witness ==
    /\ lastOp.op = "handleDragEnd" /\ lastOp.a = 0 /\ lastOp.b = 2
    /\ Len(ItemsOf(people, lastOp.personId)) = 3
    /\ ItemsOf(people, lastOp.personId)[3] = ItemsOf(before, lastOp.personId)[1]

\* the sum of the converted prices of the items at these positions, as a
\* decimal: exact on thousandths, NaN when one of them is NaN
RECURSIVE SumAt(_, _, _, _)
SumAt(r, dc, items, positions) ==
    IF positions = {} THEN Num(0)
    ELSE LET k == CHOOSE k \in positions : TRUE
             x == convertedPrice(r, dc, items[k]).value
             rest == SumAt(r, dc, items, positions \ {k})
         IN IF x.nan \/ rest.nan THEN NaN ELSE Num(x.v + rest.v)

\* what the claim says calculateGroupTotal(items, parentId) returns
GroupTotalClaimed(r, dc, items, parentId) ==
    IF parentId \notin ItemIds(items) THEN Num(0)
    ELSE SumAt(r, dc, items,
               {PositionOf(items, parentId)} \cup
               {k \in 1..Len(items) :
                   items[k].parentId = parentId /\ items[k].isRequired})

\* the double d is the decimal x up to the rounding of double additions:
\* both NaN, or less than 2^-30 apart
IsSum(d, x) ==
    LET e == DoubleOf(x)
        apart == IF d.neg # e.neg THEN AddLimbs(d.limbs, e.limbs, NumLimbs, 0)
                 ELSE IF LessLimbs(d.limbs, e.limbs)
                      THEN SubLimbs(e.limbs, d.limbs, NumLimbs, 0)
                 ELSE SubLimbs(d.limbs, e.limbs, NumLimbs, 0)
    IN IF x.nan \/ d.nan THEN x.nan /\ d.nan
       ELSE \A i \in 1..3 : apart[i] = 0

\* C4: calculateGroupTotal(items, parentId) returns 0 when no item has id
\* parentId, and otherwise the parent's converted price plus the converted
\* prices of exactly the items with that parentId and isRequired true (a sum
\* of doubles, so equal to the decimal sum up to rounding).
C4_GroupTotal ==
    result # NoResult =>
        /\ ~result[1].throws
        /\ IsSum(result[1].value,
                 GroupTotalClaimed(rates, displayCurrency, call.items, call.parentId))

\* The same with a rate table in place: the calls that return, return what
\* the claim says.
GroupTotalWithRateTable ==
    (result # NoResult /\ rates.defined) =>
        /\ ~result[1].throws
        /\ IsSum(result[1].value,
                 GroupTotalClaimed(rates, displayCurrency, call.items, call.parentId))

\* (0.14 + 0.14) + 0.14 in doubles
RoundedSum == NumAdd(NumAdd(DoubleOf(Num(140)), DoubleOf(Num(140))), DoubleOf(Num(140)))

\* Three amounts that convert to 0.14 each add up to 0.42000000000000004,
\* one unit in the last place above the double of 0.42.
GroupTotalInexact ==
    /\ result # NoResult /\ rates.defined
    /\ Len(SelectSeq(call.items, LAMBDA it : it.parentId = call.parentId /\ it.isRequired)) = 2
    /\ \A k \in 1..Len(call.items) :
          convertedPrice(rates, displayCurrency, call.items[k]).value = Num(140)
    /\ result[1].value = RoundedSum
    /\ result[1].value # DoubleOf(Num(420))
    /\ result[1].value.limbs = <<0, 13762, 18350, 2621, 14464, 0>>

\* a parent with a required child, an optional child and a grandchild
GroupTotalWitness ==
    /\ result # NoResult /\ rates.defined /\ call.parentId = 1
    /\ \E a, b \in Range(call.items) :
          /\ a.parentId = 1 /\ a.isRequired /\ ~a.price.nan
          /\ b.parentId = a.id /\ b.isRequired
    /\ ~result[1].value.nan

\* C5: whatever the outcome of the startup fetch (rejected, unparsable, or
\* parsed without a rate table), no later operation aborts: no render and
\* no handler ends in an uncaught exception.
C5_NoFatalError == aborted = "none"

\* the text is the amount rounded to two decimals: "NaN" for NaN, otherwise
\* digits, a point and two digits, within half a cent of the amount
TwoDecimalsOf(x, text) ==
    LET y == ParseFloat(text)
    IN IF x.nan THEN y.nan
       ELSE /\ ~y.nan /\ y.v % 10 = 0 /\ Abs(y.v - x.v) <= 5
            /\ Len(text) >= 4 /\ text[Len(text) - 2] = "."

\* a convertPrice call with a rate table in which from or to has no rate
FallbackCall ==
    /\ result # NoResult /\ rates.defined
    /\ rates.rate[call.from] = 0 \/ rates.rate[call.to] = 0

\* C6 (as amended): when from or to has no rate in the rate table (the
\* empty table included), convertPrice does not fail and returns the amount
\* rounded to two decimals, as text.
C6_FallbackRounds ==
    FallbackCall =>
        /\ ~result[1].throws
        /\ TwoDecimalsOf(call.price, result[1].value)

\* 1.125 USD to EUR with a table that has no EUR: "1.13"
C6_Witness ==
    /\ FallbackCall
    /\ call.price = ParseFloat(<<"1", ".", "1", "2", "5">>)
    /\ call.from = "USD" /\ call.to = "EUR"
    /\ rates.rate["USD"] = 1 /\ rates.rate["EUR"] = 0
    /\ result[1] = Returned(<<"1", ".", "1", "3">>)

\* C6 (as claimed): when from or to is absent from the rate table,
\* convertPrice does not fail and returns the original amount unchanged.
C6_FallbackIdentity ==
    FallbackCall =>
        /\ ~result[1].throws
        /\ ParseFloat(result[1].value) = call.price

\* the converted price sortItemsByPrice compares (with a rate table in place)
SortKey(item) == convertedPrice(rates, displayCurrency, item).value

\* no item stands before one it exceeds (dir "asc") or is exceeded by
\* (dir "desc"); a NaN key, which compares to nothing, is left out
OrderedIn(dir, items) ==
    \A i, j \in 1..Len(items) :
        (i < j /\ ~SortKey(items[i]).nan /\ ~SortKey(items[j]).nan) =>
            IF dir = "asc" THEN SortKey(items[i]).v <= SortKey(items[j]).v
            ELSE SortKey(items[i]).v >= SortKey(items[j]).v

\* C8: the first sortItemsByPrice call on a person's list orders it
\* ascending by converted price, and so does the third (two further calls
\* later), also when other people's lists were sorted before.  Stated for
\* the runs the claim is about: a rate table in place and numeric prices.
C8_FirstSortAscending ==
    (/\ lastOp.op = "sortItemsByPrice" /\ rates.defined
     /\ sortCalls[lastOp.personId] \in {1, 3}
     /\ \A it \in Range(ItemsOf(people, lastOp.personId)) : ~SortKey(it).nan)
        => OrderedIn("asc", ItemsOf(people, lastOp.personId))

\* new holds the items of old, each once
IsPermutation(old, new) ==
    /\ Len(new) = Len(old)
    /\ \A i \in 1..Len(old) : \E j \in 1..Len(new) : new[j] = old[i]
    /\ \A i, j \in 1..Len(new) : i # j => new[i].id # new[j].id

\* C9: every sortItemsByPrice(personId) call flips sortDirection and
\* replaces the person's list by a permutation of its items ordered by
\* converted price in the direction sortDirection held before the call.
C9_SortStep ==
    [][(sortCalls' # sortCalls /\ lastOp'.op = "sortItemsByPrice") =>
          /\ sortDirection' = Flip(sortDirection)
          /\ IsPermutation(ItemsOf(people, lastOp'.personId),
                           ItemsOf(people', lastOp'.personId))
          /\ OrderedIn(sortDirection, ItemsOf(people', lastOp'.personId))]_vars

\* every conversion of an item's price the page can ask for returns what
\* Returns(amount, text) describes
Conversions(p, r, Returns(_, _)) ==
    \A it \in AllItems(p) : \A to \in Currencies :
        /\ ~convertPrice(r, it.price, it.currency, to).throws
        /\ Returns(it.price, convertPrice(r, it.price, it.currency, to).value)

\* the text parses to the amount itself
SameAmount(x, text) == ParseFloat(text) = x

\* C10 (as amended): the rate table starts empty, is written at most once,
\* when the startup fetch resolves, and by no user action; before the fetch
\* resolves, and from then on if it fails, the table is empty and every
\* conversion returns the input amount rounded to two decimals.
C10_RatesWrittenOnce ==
    /\ rates = EmptyRates
    /\ [][/\ rates' # rates =>
                /\ fetchState = "pending" /\ fetchState' = "resolved"
                /\ lastOp'.op = "fetchResolves"
          /\ fetchState = "failed" => fetchState' = "failed"]_vars
    /\ [](fetchState # "resolved" =>
            /\ rates = EmptyRates
            /\ Conversions(people, rates, TwoDecimalsOf))

\* the fetch has failed and the page holds an item priced 1.125 USD, shown
\* in SEK as "1.13"
C10_Witness ==
    /\ fetchState = "failed" /\ rates = EmptyRates /\ displayCurrency = "SEK"
    /\ \E it \in AllItems(people) :
          /\ it.price = ParseFloat(<<"1", ".", "1", "2", "5">>)
          /\ it.currency = "USD"
          /\ convertPrice(rates, it.price, it.currency, displayCurrency)
                = Returned(<<"1", ".", "1", "3">>)

\* C10 (as claimed): the same, with every conversion before the fetch
\* resolves, and forever if it fails, returning the input amount.
C10_IdentityUntilResolved ==
    /\ rates = EmptyRates
    /\ [][/\ rates' # rates =>
                /\ fetchState = "pending" /\ fetchState' = "resolved"
                /\ lastOp'.op = "fetchResolves"
          /\ fetchState = "failed" => fetchState' = "failed"]_vars
    /\ [](fetchState # "resolved" =>
            /\ rates = EmptyRates
            /\ Conversions(people, rates, SameAmount))

\* the parentId of the item with this id, Null when no list holds it
ParentIdOf(items, id) ==
    IF \E it \in items : it.id = id
    THEN (CHOOSE it \in items : it.id = id).parentId
    ELSE Null

\* following parentId from id reaches target within n steps
RECURSIVE ReachesParent(_, _, _, _)
ReachesParent(items, id, target, n) ==
    /\ n > 0
    /\ ParentIdOf(items, id) # Null
    /\ \/ ParentIdOf(items, id) = target
       \/ ReachesParent(items, ParentIdOf(items, id), target, n - 1)

\* C11: in every reachable state the parent relation is acyclic: no item is
\* its own parent, and following parentId from an item never returns to it,
\* whatever the interleaving of addItem, startEditingItem, edit-form
\* changes, saveEditedItem and removeItem.
C11_Acyclic ==
    \A it \in AllItems(people) :
        ~ReachesParent(AllItems(people), it.id, it.id, MaxIds)

\* saveEditedItem has just given a parent to an item that is itself the
\* parent of a third item
C11_Witness ==
    /\ lastOp.op = "saveEditedItem"
    /\ \E child, it, parent \in AllItems(people) :
          /\ it.id = lastOp.a
          /\ it.parentId = parent.id /\ child.parentId = it.id
          /\ \E old \in AllItems(before) : old.id = it.id /\ old.parentId = Null

\* C12: in every reachable state every stored item's price is a
\* non-negative number, whatever price text was submitted (the empty text
\* included).
C12_PriceNonNegative ==
    \A it \in AllItems(people) : ~it.price.nan /\ it.price.v >= 0

\* C13: in every reachable state every stored item's currency, and the
\* display currency, is one of USD, EUR, SEK, GBP, JPY, for any sequence of
\* add, edit and display-currency selections.
C13_SupportedCurrencies ==
    /\ displayCurrency \in {"USD", "EUR", "SEK", "GBP", "JPY"}
    /\ \A it \in AllItems(people) :
          it.currency \in {"USD", "EUR", "SEK", "GBP", "JPY"}

\* saveEditedItem has just changed an item's currency, next to an item with
\* another currency, and the display currency is no longer the initial one
C13_Witness ==
    /\ lastOp.op = "saveEditedItem"
    /\ displayCurrency # "SEK"
    /\ \E it, other \in AllItems(people) : \E old \in AllItems(before) :
          /\ it.id = lastOp.a /\ old.id = it.id /\ old.currency # it.currency
          /\ other.currency # it.currency

\* C14: saveEditedItem(personId) changes at most the item whose id is
\* editingItemId: it keeps its id and position and takes the edited name,
\* price, currency, link, parentId and isRequired; every other item and
\* every other person is unchanged; when the person's list does not hold
\* the item, people is unchanged and the item is not re-created.
C14_SaveFrame ==
    [][(lastOp'.op = "saveEditedItem" /\ editingItemId # Null /\ editingItemId' = Null) =>
          LET old == ItemsOf(people, lastOp'.personId)
              new == ItemsOf(people', lastOp'.personId)
          IN /\ OthersUntouched(people, people', lastOp'.personId)
             /\ Len(new) = Len(old)
             /\ \A k \in 1..Len(old) :
                   IF old[k].id # editingItemId THEN new[k] = old[k]
                   ELSE /\ new[k].id = editingItemId
                        /\ new[k].name = editingItem.name
                        /\ new[k].price = ParseFloat(editingItem.price)
                        /\ new[k].currency = editingItem.tempCurrency
                        /\ new[k].link = editingItem.link
                        /\ new[k].parentId = editingItem.parentId
                        /\ new[k].isRequired = editingItem.isRequired
             /\ editingItemId \notin ItemIds(old) => people' = people]_vars

\* saveEditedItem has just rewritten the middle item of a list of three:
\* new name, price 1.125, currency, link, parent and flag
C14_Witness ==
    /\ lastOp.op = "saveEditedItem" /\ editingItemId = Null
    /\ Len(ItemsOf(people, lastOp.personId)) = 3
    /\ LET old == ItemsOf(before, lastOp.personId)[2]
           new == ItemsOf(people, lastOp.personId)[2]
       IN /\ new.id = lastOp.a /\ old.id = lastOp.a
          /\ new.name # old.name /\ new.link # old.link
          /\ new.price = ParseFloat(<<"1", ".", "1", "2", "5">>)
          /\ new.currency # old.currency
          /\ new.parentId # old.parentId /\ new.isRequired

\* saveEditedItem has just been called for an item that is in no list
SaveOfRemovedItem ==
    /\ lastOp.op = "saveEditedItem" /\ editingItemId = Null
    /\ lastOp.a \notin {it.id : it \in AllItems(before)}
    /\ people = before /\ AllItems(people) # {}

\* C15: in every reachable state an item whose isRequired flag is true has
\* a parentId set, also when "No dependency" was selected after the flag
\* was ticked.
C15_RequiredHasParent ==
    \A it \in AllItems(people) : it.isRequired => it.parentId # Null

\* C16: addItem, removeItem, saveEditedItem, handleDragEnd and
\* sortItemsByPrice, addressed to one person, leave the people list's order
\* and identity and every other person's name and items unchanged, and
\* addItem appends exactly one new item at the end of the person's list.
C16_ItemOpsFrame ==
    lastOp.op \in {"addItem", "removeItem", "saveEditedItem", "handleDragEnd",
                   "sortItemsByPrice"} =>
        /\ OthersUntouched(before, people, lastOp.personId)
        /\ lastOp.op = "addItem" =>
              LET old == ItemsOf(before, lastOp.personId)
                  new == ItemsOf(people, lastOp.personId)
              IN /\ Len(new) = Len(old) + 1
                 /\ SubSeq(new, 1, Len(old)) = old
                 /\ new[Len(new)].id \notin {it.id : it \in AllItems(before)}

\* addItem has just appended an item to the first person's list while the
\* second person holds an item whose price was edited
C16_Witness ==
    /\ lastOp.op = "addItem" /\ Len(people) = 2
    /\ lastOp.personId = people[1].id
    /\ Len(people[1].items) = 1
    /\ Len(people[2].items) = 1 /\ ~people[2].items[1].price.nan

\* addItem has just stored the name and the link typed into the add form
AddStoresTypedText ==
    /\ lastOp.op = "addItem"
    /\ \E it \in AllItems(people) :
          /\ it.id = lastOp.a /\ it.name = <<"T", "V">>
          /\ it.link = <<"h", "t", "t", "p", ":", "/", "/", "a">>

\* sortItemsByPrice has just reordered a list of three
SortReordersThree ==
    /\ lastOp.op = "sortItemsByPrice"
    /\ Len(ItemsOf(people, lastOp.personId)) = 3
    /\ ItemsOf(people, lastOp.personId) # ItemsOf(before, lastOp.personId)

====
